---- MODULE Spec2Model ----
(***************************************************************************)
(* Model of the spike-work-proof crate (src/src/lib.rs): WorkProof::init,  *)
(* WorkProof::verify, WorkProof::next, WorkProof::proof and                *)
(* WorkProof::difficulty, as called from any number of threads (the way    *)
(* src/examples/timing.rs drives them).                                    *)
(*                                                                         *)
(* Representation.  A byte is a number 0..255.  A u128 / u32 VALUE (the    *)
(* Wrapping<u128> `iter`, the Wrapping<u32> `node`) is a sequence of 8 / 2 *)
(* limbs in base 2^16, most significant limb first; its BYTES are what     *)
(* to_le_bytes makes of it.  The arithmetic is done limb by limb at the    *)
(* real width, so wrapping happens where the code wraps.                   *)
(***************************************************************************)
EXTENDS Integers, Sequences, FiniteSets, TLC

---------------------------------------------------------------------------
(* Bounds of the model *)

\* init is called with a count in 0..MaxCount, or with WrapCount
MaxCount == 2
\* threads that call into the crate
NumThreads == 2
\* next() calls made on the states of one init call
MaxNext == 2
\* standalone verify calls made in one behaviour
MaxVerify == 1
\* the states of a run whose proofs are handed to standalone verify
MaxProbe == 2
\* the hash primitive rejects no password, or those of one class of RejectMod classes
RejectMod == 2

---------------------------------------------------------------------------
(* Integers of a fixed width, as limbs *)

Base == 256 * 256

\* limbs of a u128 (struct field `iter: Wrapping<u128>`) and of a u32 (`node`)
U128Limbs == 8
U32Limbs == 2

Zero(n) == [i \in 1..n |-> 0]

\* u128::MAX, u32::MAX
MAX(n) == [i \in 1..n |-> Base - 1]

RECURSIVE AddFrom(_, _, _, _)
AddFrom(a, b, i, carry) ==
  IF i = 0 THEN <<>>
  ELSE LET s == a[i] + b[i] + carry
       IN  Append(AddFrom(a, b, i - 1, s \div Base), s % Base)

\* Wrapping<T> += : the carry out of the most significant limb is dropped
\* an addition that stops at the maximum
SaturatingAdd(a, b) ==
  IF \E i \in 1..Len(a) : /\ AddFrom(a, b, Len(a), 0)[i] < a[i]
                          /\ \A j \in 1..(i - 1) : AddFrom(a, b, Len(a), 0)[j] = a[j]
  THEN MAX(Len(a))
  ELSE AddFrom(a, b, Len(a), 0)

WrappingAdd(a, b) == AddFrom(a, b, Len(a), 0)

One(n) == [i \in 1..n |-> IF i = n THEN 1 ELSE 0]

RECURSIVE DivFrom(_, _, _, _)
DivFrom(a, d, i, rem) ==
  IF i > Len(a) THEN <<>>
  ELSE LET cur == rem * Base + a[i]
       IN  <<cur \div d>> \o DivFrom(a, d, i + 1, cur % d)

\* a / d for a divisor 0 < d < 2^15 (a count of the model)
Div(a, d) == DivFrom(a, d, 1, 0)

\* T::from_le_bytes: the value of 2n little-endian bytes
from_le_bytes(b) ==
  LET n == Len(b) \div 2
  IN  [i \in 1..n |-> b[2 * (n - i) + 2] * 256 + b[2 * (n - i) + 1]]

\* T::to_le_bytes: the little-endian bytes of a value
to_le_bytes(w) ==
  LET n == Len(w)
  IN  [j \in 1..(2 * n) |->
         LET limb == w[n - ((j - 1) \div 2)]
         IN  IF j % 2 = 1 THEN limb % 256 ELSE limb \div 256]

\* a usize: hi * 2^32 + lo.  The counts of the model have lo < 2^15, and lo = 0
\* where hi > 0
Usize(hi, lo) == [hi |-> hi, lo |-> lo]

\* `count as u32`: the low 32 bits of count
AsU32(count) == count.lo

\* a >> 32
ShiftRight32(a) == Zero(2) \o SubSeq(a, 1, Len(a) - 2)

\* a / count as u128, for a count that is not 0: a / lo for a count below 2^32,
\* and (a >> 32) / hi for the count hi * 2^32
DivCount(a, count) ==
  IF count.hi = 0 THEN Div(a, count.lo) ELSE Div(ShiftRight32(a), count.hi)

---------------------------------------------------------------------------
(* The jitter tables *)

BIG_JITTER ==
  << <<44864, 21297, 3991, 64841, 24652, 33775, 17922, 18958>>,
     <<46563, 39869, 23726, 30160, 24167, 20224, 37470, 62262>>,
     <<26089, 60294, 30842, 12311, 58822, 62726, 51685, 3812>>,
     <<4592, 11843, 22400, 52931, 34949, 6181, 23568, 49022>>,
     <<766, 45769, 51943, 14026, 44041, 312, 51743, 26895>>,
     <<53347, 37583, 14319, 52605, 37948, 12095, 15052, 22856>>,
     <<19705, 9739, 23852, 12624, 7983, 14246, 17179, 34396>>,
     <<33452, 53199, 38127, 53929, 36656, 602, 3796, 23643>>,
     <<47808, 9106, 13198, 39413, 56430, 45771, 42300, 525>>,
     <<35076, 53018, 7271, 19199, 1368, 49518, 46431, 26052>>,
     <<43691, 20710, 2872, 22217, 59262, 20220, 48031, 8092>>,
     <<61186, 60338, 7661, 24940, 42174, 14288, 50579, 45030>>,
     <<49624, 61917, 56564, 24426, 62209, 25105, 20490, 20596>> >>

SM_JITTER ==
  << <<40185, 53057>>, <<26097, 14624>>, <<54063, 15171>>, <<51429, 21231>>,
     <<35133, 19681>>, <<17869, 22432>>, <<50684, 16202>>, <<53694, 30798>>,
     <<16188, 48073>>, <<44364, 6330>>, <<42895, 11895>>, <<43369, 13038>>,
     <<8603, 17757>> >>

\* an iterator that stays on the last entry of the table once it has reached it
CycleClamped(table, k) == table[IF k > Len(table) THEN Len(table) ELSE k]

\* std::iter::repeat(table.iter()).flatten(): the k-th item drawn, k = 1, 2, ...
Cycle(table, k) == table[((k - 1) % Len(table)) + 1]

---------------------------------------------------------------------------
(* State *)

VARIABLES
  states,    \* the WorkProofs of the latest successful init (by index), as next() has changed them
  mem,       \* thread_local MEM: per thread, Unallocated or the scratch blocks
  ret,       \* the latest call: who called what with which arguments, and its result
  rejects,   \* the hash primitive: which passwords it rejects (fixed for a behaviour)
  hashed,    \* per state of `states`, the Candidates hashed for it so far, as runs of counters
  initLog,   \* the init calls made so far, with their results
  calls,     \* how many init / next / verify calls were made (bounds the model)
  budget     \* how many of each the behaviour may make (fixed for a behaviour)

vars == <<states, mem, ret, rejects, hashed, initLog, calls, budget>>

Threads == 1..NumThreads

---------------------------------------------------------------------------
(* The hash primitive: ARGON2.hash_password_into_with_memory.  It is an     *)
(* external collaborator (the argon2 crate); the model keeps what the crate *)
(* relies on: the result is a deterministic function of password and salt,  *)
(* the memory blocks are written before they are read, and the call can be  *)
(* refused (an Err) for inputs the primitive rejects.                       *)

\* Block count / memory usage
BLOCK_COUNT == 16384

\* the shortest salt the primitive accepts
MIN_SALT_LEN == 8

\* the value of `rejects` of a primitive that rejects no password
NoReject == RejectMod

\* the MEM of a thread that has not used it: allocs counts the buffers the thread
\* has allocated
Unallocated == [blocks |-> 0, data |-> <<>>, allocs |-> 0]

\* the lazy initialiser of MEM runs: a buffer of default blocks is allocated
Allocate(m) == [blocks |-> BLOCK_COUNT, data |-> Zero(16), allocs |-> m.allocs + 1]

\* vec![argon2::Block::default(); BLOCK_COUNT as usize]
DefaultMem == Allocate(Unallocated)

\* a checksum over all the bytes of s, taken eight at a time from position i on
At(s, i) == IF i <= Len(s) THEN s[i] ELSE 0
RECURSIVE WSum(_, _)
WSum(s, i) ==
  IF i > Len(s) THEN 0
  ELSE (At(s, i) + 2 * At(s, i + 1) + 3 * At(s, i + 2) + 4 * At(s, i + 3)
        + 5 * At(s, i + 4) + 6 * At(s, i + 5) + 7 * At(s, i + 6) + 8 * At(s, i + 7)
        + 31 * WSum(s, i + 8)) % 65521

\* what the primitive writes into the memory blocks (a digest of it): it depends on
\* the password and the salt only, the former content is overwritten
Blocks(a, b, len) ==
  [i \in 1..16 |-> ((a + 1) * (2 * i + 1) + b * i + (a \div 256) + len) % 256]

\* a primitive that mixes the former content of the blocks into the new
FillBlocksOver(pwd, salt, old) ==
  Blocks(WSum(pwd, 1) + (IF Len(old) > 0 THEN old[1] + 1 ELSE 0), WSum(salt, 1), Len(pwd))

FillBlocks(pwd, salt, old) == Blocks(WSum(pwd, 1), WSum(salt, 1), Len(pwd))

\* the 16 output bytes, read from the filled blocks
Finalize(data) ==
  [i \in 1..16 |-> (data[i] * 3 + data[(i % 16) + 1] + (data[1] \div 16)) % 256]

Rejected(pwd) ==
  rejects # NoReject /\ Len(pwd) > 0 /\ pwd[1] % RejectMod = rejects

Refused(m, msg) == [ok |-> FALSE, out |-> Zero(16), err |-> msg, mem |-> m]

\* a primitive that reads its output from the blocks before it has filled them
HashedStale(m, data) ==
  [ok |-> TRUE, out |-> Finalize(m.data), err |-> "", mem |-> [m EXCEPT !.data = data]]

Hashed(m, data) ==
  [ok |-> TRUE, out |-> Finalize(data), err |-> "", mem |-> [m EXCEPT !.data = data]]

\* ARGON2.hash_password_into_with_memory(&proof, &hash, &mut out, mem)
hash_password_into_with_memory(pwd, salt, m) ==
  IF m.blocks < BLOCK_COUNT THEN Refused(m, "memory cost is too small")
  ELSE IF Len(salt) < MIN_SALT_LEN THEN Refused(m, "salt is too short")
  ELSE IF Rejected(pwd) THEN Refused(m, "password rejected")
  ELSE Hashed(m, FillBlocks(pwd, salt, m.data))

---------------------------------------------------------------------------
(* f64 arithmetic of the difficulty.  The integers involved are held as     *)
(* WideLimbs limbs, one more than a u128 has, so that 2^128 has a place.    *)

\* significant bits of an f64
F64Bits == 53
LimbBits == 16
WideLimbs == U128Limbs + 1

\* a u128 widened by a leading zero limb
Widen(w) == <<0>> \o w

\* the number of bits of a limb x > 0
BitLen(x) == CHOOSE k \in 1..LimbBits : 2 ^ (k - 1) <= x /\ x < 2 ^ k

\* the first limb of w that is not 0
Lead(w) == CHOOSE i \in 1..Len(w) : w[i] # 0 /\ \A j \in 1..(i - 1) : w[j] = 0

\* w with the low part `low` of limb cut, and all limbs after it, dropped
Truncated(w, cut, low) ==
  [i \in 1..Len(w) |-> IF i < cut THEN w[i] ELSE IF i = cut THEN w[cut] - low ELSE 0]

\* one unit of the last place kept: `unit` in limb cut (1 in limb cut - 1 for Base)
UnitAt(n, cut, unit) ==
  [i \in 1..n |-> IF i = cut THEN unit % Base
                  ELSE IF i = cut - 1 /\ unit = Base THEN 1 ELSE 0]

\* w rounded where limb cut keeps its multiples of `unit`: up if the dropped part is
\* more than half a unit, or is half a unit and the last place kept is odd
RoundCut(w, cut, unit, low) ==
  IF /\ low >= unit \div 2
     /\ \/ low > unit \div 2
        \/ \E i \in (cut + 1)..Len(w) : w[i] # 0
        \/ IF unit = Base THEN w[cut - 1] % 2 = 1 ELSE (w[cut] \div unit) % 2 = 1
  THEN AddFrom(Truncated(w, cut, low), UnitAt(Len(w), cut, unit), Len(w), 0)
  ELSE Truncated(w, cut, low)

\* r: how many of the 53 bits the limbs after the leading limb L hold
RoundAfter(w, L, r) ==
  IF L + (r \div LimbBits) + 1 > Len(w) THEN w
  ELSE RoundCut(w, L + (r \div LimbBits) + 1, 2 ^ (LimbBits - (r % LimbBits)),
                w[L + (r \div LimbBits) + 1] % (2 ^ (LimbBits - (r % LimbBits))))

RoundLead(w, L) == RoundAfter(w, L, F64Bits - BitLen(w[L]))

\* `as f64` and the rounding of an f64 operation: an integer rounded to 53
\* significant bits, to nearest, ties to even
RoundF64(w) == IF \A i \in 1..Len(w) : w[i] = 0 THEN w ELSE RoundLead(w, Lead(w))

RECURSIVE SubFrom(_, _, _, _)
SubFrom(a, b, i, borrow) ==
  IF i = 0 THEN <<>>
  ELSE LET d == a[i] - b[i] - borrow
       IN  Append(SubFrom(a, b, i - 1, IF d < 0 THEN 1 ELSE 0), (d + Base) % Base)

\* a - b, for a >= b
Minus(a, b) == SubFrom(a, b, Len(a), 0)

\* u128::MAX as f64: 2^128 (u128::MAX rounds up)
MaxAsF64 == RoundF64(Widen(MAX(U128Limbs)))

\* let pct = u128::from_le_bytes(out) as f64 / u128::MAX as f64;
\* let dif = (1.0 / (1.0 - pct)).log10();
\* The f64 `1.0 - pct` is d / 2^128 for the integer d computed here; dif is
\* log10(2^128 / d), and +infinity for d = 0.  A difficulty is held as d: the
\* larger d, the smaller the difficulty.
\* a score that reads the output most significant byte first
ScoreBigEndian(out) ==
  RoundF64(Minus(MaxAsF64, RoundF64(Widen(from_le_bytes([i \in 1..Len(out) |-> out[Len(out) + 1 - i]])))))

Score(out) == RoundF64(Minus(MaxAsF64, RoundF64(Widen(from_le_bytes(out)))))

\* the difficulty +infinity: log10(1.0 / 0.0)
Infinity == Zero(WideLimbs)

\* difficulty d1 <= difficulty d2 (of f64: the larger 1.0 - pct, the smaller dif)
ScoreLeq(d1, d2) == ~(\E i \in 1..Len(d1) : d1[i] < d2[i] /\ \A j \in 1..(i - 1) : d1[j] = d2[j])

\* the f64 0.0 of a result that carries no score
NoScore == Zero(WideLimbs)

\* a MEM that is allocated anew at every use
BorrowFresh(m) == Allocate(m)

\* MEM.with_borrow_mut: the thread's buffer, allocated at the thread's first use of it
Borrow(m) == IF m = Unallocated THEN DefaultMem ELSE m

\* a verify that takes an infinite difficulty for an error
VerifiedFinite(h) ==
  IF h.ok /\ Score(h.out) # Infinity
  THEN [ok |-> TRUE, val |-> Score(h.out), err |-> "", mem |-> h.mem]
  ELSE [ok |-> FALSE, val |-> NoScore, err |-> IF h.ok THEN "infinite" ELSE h.err, mem |-> h.mem]

\* .map_err(|err| err.to_string())?  and the difficulty of the output
Verified(h) ==
  IF h.ok THEN [ok |-> TRUE, val |-> Score(h.out), err |-> "", mem |-> h.mem]
  ELSE [ok |-> FALSE, val |-> NoScore, err |-> h.err, mem |-> h.mem]

\* WorkProof::verify, run against the calling thread's MEM (m)
verify(proof, hash, m) == Verified(hash_password_into_with_memory(proof, hash, Borrow(m)))

---------------------------------------------------------------------------
(* WorkProof *)

\* struct WorkProof { pwd: [u8; 20], salt: [u8; 32], difficulty: f64, iter: Wrapping<u128> }
WorkProof(pwd, salt, dif, iter) ==
  [pwd |-> pwd, salt |-> salt, difficulty |-> dif, iter |-> iter]

PwdLen == 20
SaltLen == 32
CounterLen == 16

\* a seed that is padded with zero bytes
ZeroPad(seed, n, acc) == [i \in 1..n |-> IF i <= Len(seed) THEN seed[i] ELSE 0]

\* std::iter::repeat(seed.iter()).flatten().cloned().take(20).collect::<Vec<_>>()
RECURSIVE RepeatTake(_, _, _)
RepeatTake(seed, n, acc) ==
  IF Len(acc) >= n THEN SubSeq(acc, 1, n) ELSE RepeatTake(seed, n, acc \o seed)

\* a copy of the counter into the last 16 bytes of pwd
SetCounterShifted(pwd, iter) == SubSeq(pwd, 1, PwdLen - CounterLen) \o to_le_bytes(iter)

\* pwd[..16].copy_from_slice(&iter.0.to_le_bytes()) (and the same of pwd[16..])
SetCounter(pwd, iter) == to_le_bytes(iter) \o SubSeq(pwd, CounterLen + 1, PwdLen)
SetNode(pwd, node) == SubSeq(pwd, 1, CounterLen) \o to_le_bytes(node)

Ok(val, m, trace) == [kind |-> "Ok", val |-> val, err |-> "", mem |-> m, trace |-> trace]
Err(msg, m, trace) == [kind |-> "Err", val |-> <<>>, err |-> msg, mem |-> m, trace |-> trace]
Panic(msg, m, trace) == [kind |-> "Panic", val |-> <<>>, err |-> msg, mem |-> m, trace |-> trace]

\* the 128-bit counter and the 4-byte node id a Candidate holds
Counter(pwd) == from_le_bytes(SubSeq(pwd, 1, CounterLen))
Tag(pwd) == SubSeq(pwd, CounterLen + 1, PwdLen)

\* the end of a round: `?` returns verify's error, else the new state is pushed
RoundPush(st, salt, iter2, node2, pwd2, v) ==
  IF v.ok
  THEN [kind |-> "Run", iter |-> iter2, node |-> node2, pwd |-> pwd2,
        out |-> <<WorkProof(pwd2, salt, v.val, iter2)>>,
        mem |-> v.mem, trace |-> <<pwd2>>, err |-> ""]
  ELSE [st EXCEPT !.kind = "Err", !.err = v.err, !.mem = v.mem,
                  !.out = <<>>, !.trace = <<pwd2>>]

RoundVerify(st, salt, iter2, node2, pwd2) ==
  RoundPush(st, salt, iter2, node2, pwd2, verify(pwd2, salt, st.mem))

\* a round that leaves pwd as it was
RoundWriteNothing(st, salt, iter2, node2) == RoundVerify(st, salt, iter2, node2, st.pwd)

RoundWrite(st, salt, iter2, node2) ==
  RoundVerify(st, salt, iter2, node2, SetNode(SetCounter(st.pwd, iter2), node2))

\* iter += u128::MAX / count as u128; iter += big.next().unwrap();
IterAfter(st, k, count) ==
  WrappingAdd(WrappingAdd(st.iter, DivCount(MAX(U128Limbs), count)), Cycle(BIG_JITTER, k))

\* node += u32::MAX / count as u32; node += sm.next().unwrap();
NodeAfter(st, k, count) ==
  WrappingAdd(WrappingAdd(st.node, Div(MAX(U32Limbs), AsU32(count))), Cycle(SM_JITTER, k))

\* the k-th round of `for _ in 0..count`.  st: the loop's variables before it and
\* the MEM of the calling thread; out, trace: what the round pushes to `out`, and
\* the Candidate it passes to the hash primitive
Round(st, k, count, salt) ==
  IF AsU32(count) = 0
  THEN [st EXCEPT !.kind = "Panic", !.err = "attempt to divide by zero",
                  !.out = <<>>, !.trace = <<>>]
  ELSE RoundWrite(st, salt, IterAfter(st, k, count), NodeAfter(st, k, count))

\* an `out` that keeps only what the later rounds push
JoinDropped(left, right) == right

\* the rounds of `right` came after those of `left`
Join(left, right) ==
  [right EXCEPT !.out = left.out \o right.out, !.trace = left.trace \o right.trace]

\* the rounds from..to of the loop, in order, with all they push to `out`; a round
\* that returns (`?`) or panics ends the loop
RECURSIVE Rounds(_, _, _, _, _)
Then(left, from, to, count, salt) == Join(left, Rounds(from, to, left, count, salt))

Rounds(from, to, st, count, salt) ==
  IF from > to \/ st.kind # "Run" THEN [st EXCEPT !.out = <<>>, !.trace = <<>>]
  ELSE IF from = to THEN Round(st, from, count, salt)
  ELSE Then(Rounds(from, (from + to) \div 2, st, count, salt),
            ((from + to) \div 2) + 1, to, count, salt)

\* Ok(out), or what ended the loop early
Returned(end) ==
  IF end.kind = "Run" THEN Ok(end.out, end.mem, end.trace)
  ELSE IF end.kind = "Err" THEN Err(end.err, end.mem, end.trace)
  ELSE Panic(end.err, end.mem, end.trace)

\* the loop's variables before its first round
First(pwd, m) ==
  [kind |-> "Run", iter |-> Counter(pwd), node |-> from_le_bytes(Tag(pwd)),
   pwd |-> pwd, out |-> <<>>, mem |-> m, trace |-> <<>>, err |-> ""]

\* a loop followed up to a round that is not its last: what ended it there, or
\* that it is still running
Unfinished(end) ==
  IF end.kind = "Run" THEN [Ok(<<>>, end.mem, end.trace) EXCEPT !.kind = "Running"]
  ELSE Returned(end)

\* iter and node are read from the filled pwd, then the loop runs: all its rounds
\* for a count below 2^32, and its first round for a larger count
Loop(count, hash, m, pwd) ==
  IF count.hi = 0
  THEN Returned(Rounds(1, count.lo, First(pwd, m), count, hash))
  ELSE Unfinished(Rounds(1, 1, First(pwd, m), count, hash))

\* size_of::<WorkProof>(): 20 + 32 + 8 + 16 bytes and 4 of padding
StateSize == 80

\* the high 32 bits of isize::MAX / StateSize = 115292150460684697, whose low 32
\* bits lie above every lo of the model
MaxCapacityHi == 26843545

\* Vec::with_capacity(count): it panics for a capacity of more than isize::MAX
\* bytes, and aborts the process when the allocator does not grant the request
WithCapacity(count, granted, m) ==
  IF count.hi > MaxCapacityHi THEN Panic("capacity overflow", m, <<>>)
  ELSE IF ~granted THEN [Panic("memory allocation failed", m, <<>>) EXCEPT !.kind = "Abort"]
  ELSE Ok(<<>>, m, <<>>)

\* the errors init returns for its arguments
InvalidInput == {"seed should be between 1 and 20 bytes", "hash must be 32 bytes"}

\* an init that does not check the length of hash
initAnyHash(count, seed, hash, m, granted) ==
  IF Len(seed) = 0 \/ Len(seed) > PwdLen
  THEN Err("seed should be between 1 and 20 bytes", m, <<>>)
  ELSE IF WithCapacity(count, granted, m).kind # "Ok" THEN WithCapacity(count, granted, m)
  ELSE Loop(count, hash, m, RepeatTake(seed, PwdLen, <<>>))

\* WorkProof::init(count, seed, hash), called on a thread whose MEM is m; granted:
\* whether the allocator grants the memory for `out`
init(count, seed, hash, m, granted) ==
  IF Len(seed) = 0 \/ Len(seed) > PwdLen
  THEN Err("seed should be between 1 and 20 bytes", m, <<>>)
  ELSE IF Len(hash) # SaltLen
  THEN Err("hash must be 32 bytes", m, <<>>)
  ELSE IF WithCapacity(count, granted, m).kind # "Ok" THEN WithCapacity(count, granted, m)
  ELSE Loop(count, hash, m, RepeatTake(seed, PwdLen, <<>>))

\* a step that moves iter and leaves pwd as it was
SteppedIterOnly(self, iter2) == [self EXCEPT !.iter = iter2]

\* self.iter += k; self.pwd[..16].copy_from_slice(&self.iter.0.to_le_bytes())
Stepped(self, iter2) == [self EXCEPT !.iter = iter2, !.pwd = SetCounter(self.pwd, iter2)]

\* a next that stores what verify left behind before it looks at the error
ScoredOnFailure(moved, v) ==
  [self |-> [moved EXCEPT !.difficulty = v.val],
   res |-> IF v.ok THEN Ok(v.val, v.mem, <<moved.pwd>>) ELSE Err(v.err, v.mem, <<moved.pwd>>)]

\* self.difficulty = Self::verify(..)?; Ok(self.difficulty)
Scored(moved, v) ==
  IF v.ok
  THEN [self |-> [moved EXCEPT !.difficulty = v.val], res |-> Ok(v.val, v.mem, <<moved.pwd>>)]
  ELSE [self |-> moved, res |-> Err(v.err, v.mem, <<moved.pwd>>)]

\* a next that hands verify its arguments in the wrong order
RehashSwapped(moved, m) == Scored(moved, verify(moved.salt, moved.pwd, m))

Rehash(moved, m) == Scored(moved, verify(moved.pwd, moved.salt, m))

\* WorkProof::next(&mut self), called on a thread whose MEM is m: the new self,
\* the result and the new MEM
next(self, m) == Rehash(Stepped(self, WrappingAdd(self.iter, One(U128Limbs))), m)

\* k calls of next in a row, each returning Ok: self and the result of the last
nextTimes(self, k, m) == Rehash(Stepped(self, WrappingAdd(self.iter, k)), m)

\* WorkProof::proof(&self)
proof(self) == self.pwd

\* WorkProof::difficulty(&self)
difficulty(self) == self.difficulty

---------------------------------------------------------------------------
(* The same calls, for a hash primitive whose 16 output bytes are given: what   *)
(* verify, next and init make of an output, whichever password produces it.     *)

\* WorkProof::verify, when the primitive returns Ok and has written o to `out`
verifyGiven(o, m) == Verified([ok |-> TRUE, out |-> o, err |-> "", mem |-> Borrow(m)])

\* WorkProof::next(&mut self), when the primitive writes o
nextGiven(self, m, o) ==
  Scored(Stepped(self, WrappingAdd(self.iter, One(U128Limbs))), verifyGiven(o, m))

\* the k-th round of init's loop, when the primitive writes o
RoundGiven(st, k, count, salt, o) ==
  RoundPush(st, salt, IterAfter(st, k, count), NodeAfter(st, k, count),
            SetNode(SetCounter(st.pwd, IterAfter(st, k, count)), NodeAfter(st, k, count)),
            verifyGiven(o, st.mem))

\* WorkProof::init(1, seed, hash) for a valid seed and hash, when the primitive writes o
initGiven(seed, hash, m, o) ==
  Returned(RoundGiven(First(RepeatTake(seed, PwdLen, <<>>), m), 1, Usize(0, 1), hash, o))

---------------------------------------------------------------------------
(* The calls a program makes, and what they are called with *)

Rep(byte, n) == [i \in 1..n |-> byte]

\* the counts 0..n
UpTo(n) == {Usize(0, c) : c \in 0..n}

Counts == UpTo(MaxCount)

\* seeds of 1..20 bytes: a short one and the same bytes written out to 20
ShortSeeds == {<<171>>, <<1, 2, 250>>}
Filled(s) == [i \in 1..PwdLen |-> s[((i - 1) % Len(s)) + 1]]
ValidSeeds == ShortSeeds \cup {Filled(s) : s \in ShortSeeds}
TestHash == Rep(219, SaltLen)

InitArgs ==
  [count : Counts, seed : ValidSeeds, hash : {TestHash}]
    \cup [count : {Usize(0, 1)}, seed : {<<>>, Rep(7, PwdLen + 1)}, hash : {TestHash}]
    \cup [count : {Usize(0, 1)}, seed : {<<171>>},
          hash : {Rep(5, SaltLen - 1), Rep(5, SaltLen + 1)}]
    \cup [count : {Usize(0, 2)}, seed : {<<>>}, hash : {Rep(5, SaltLen - 1)}]

\* a call that has not been made
NoCall ==
  [op |-> "none", thread |-> 0, self |-> 0, args |-> <<>>, kind |-> "none",
   vec |-> <<>>, dif |-> NoScore, bytes |-> <<>>, err |-> "", trace |-> <<>>]

\* the state of a program that has made no call yet and will make at most b.init
\* init calls, b.next next calls per run and b.verify standalone verify calls; the
\* passwords the primitive rejects are those of class r (none for NoReject)
Start(b, r) ==
  /\ states = <<>>
  /\ mem = [t \in Threads |-> Unallocated]
  /\ ret = NoCall
  /\ rejects = r
  /\ hashed = <<>>
  /\ initLog = {}
  /\ calls = [init |-> 0, next |-> 0, verify |-> 0]
  /\ budget = b

Init == \E r \in 0..RejectMod : Start([init |-> 1, next |-> MaxNext, verify |-> MaxVerify], r)

\* the Candidates from, from + 1, .. (len of them, counting in the counter)
Run(from, len) == [from |-> from, len |-> len]

\* the elements of vec at the indexes in keep
Kept(vec, keep) == IF DOMAIN vec \subseteq keep THEN vec ELSE [i \in keep \cap DOMAIN vec |-> vec[i]]

\* init returns r to thread t; of what it returns, the elements at the indexes in
\* keep are followed further
InitReturns(t, a, r, keep) ==
  /\ mem' = [mem EXCEPT ![t] = r.mem]
  /\ ret' = [NoCall EXCEPT !.op = "init", !.thread = t, !.args = a, !.kind = r.kind,
                           !.vec = Kept(r.val, keep), !.err = r.err,
                           !.trace = Kept(r.trace, keep)]
  /\ IF r.kind = "Ok"
     THEN /\ states' = Kept(r.val, keep)
          /\ hashed' = [i \in keep \cap DOMAIN r.val |-> {Run(r.val[i].pwd, One(U128Limbs))}]
          /\ calls' = [calls EXCEPT !.init = @ + 1, !.next = 0]
     ELSE /\ UNCHANGED <<states, hashed>>
          /\ calls' = [calls EXCEPT !.init = @ + 1]
  /\ initLog' = initLog \cup {[args |-> a, kind |-> r.kind, vec |-> Kept(r.val, keep),
                               err |-> r.err]}
  /\ UNCHANGED <<rejects, budget>>

\* thread t calls WorkProof::init(a.count, a.seed, a.hash), for a count whose
\* states the allocator has room for
InitCall(t, a) ==
  /\ calls.init < budget.init
  /\ InitReturns(t, a, init(a.count, a.seed, a.hash, mem[t], TRUE), 1..a.count.lo)

\* thread t calls WorkProof::init(a.count, a.seed, a.hash) and hands each state
\* to a worker; the workers in keep are followed
InitSpawn(t, a, keep) ==
  /\ calls.init < budget.init
  /\ InitReturns(t, a, init(a.count, a.seed, a.hash, mem[t], TRUE), keep)

NextReturns(t, i, n, len, a) ==
  /\ states' = [states EXCEPT ![i] = n.self]
  /\ mem' = [mem EXCEPT ![t] = n.res.mem]
  /\ ret' = [NoCall EXCEPT !.op = "next", !.thread = t, !.self = i, !.args = a,
                           !.kind = n.res.kind,
                           !.dif = n.res.val, !.err = n.res.err, !.trace = n.res.trace]
  /\ hashed' = [hashed EXCEPT ![i] = @ \cup {Run(SetCounter(states[i].pwd,
                                   WrappingAdd(states[i].iter, One(U128Limbs))), len)}]
  /\ calls' = [calls EXCEPT !.next = @ + 1]
  /\ UNCHANGED <<rejects, initLog, budget>>

\* thread t calls states[i].next()
NextCall(t, i) ==
  /\ calls.next < budget.next
  /\ NextReturns(t, i, next(states[i], mem[t]), One(U128Limbs), <<>>)

\* thread t calls states[i].next() k times in a row (k > 0), as a worker's loop
\* does, in a program whose primitive rejects nothing: every call returns Ok
NextRun(t, i, k) ==
  /\ calls.next < budget.next
  /\ rejects = NoReject
  /\ k # Zero(U128Limbs)
  /\ NextReturns(t, i, nextTimes(states[i], k, mem[t]), k, <<>>)

\* the proofs handed to standalone verify: those of the first states of the run
Probes == {proof(states[i]) : i \in 1..(IF Len(states) < MaxProbe THEN Len(states) ELSE MaxProbe)}

VerifyReturns(t, p, h, v) ==
  /\ mem' = [mem EXCEPT ![t] = v.mem]
  /\ ret' = [NoCall EXCEPT !.op = "verify", !.thread = t, !.args = [proof |-> p, hash |-> h],
                           !.kind = IF v.ok THEN "Ok" ELSE "Err",
                           !.dif = v.val, !.err = v.err, !.trace = <<p>>]
  /\ calls' = [calls EXCEPT !.verify = @ + 1]
  /\ UNCHANGED <<states, rejects, hashed, initLog, budget>>

\* thread t calls WorkProof::verify(p, h)
VerifyCall(t, p, h) ==
  /\ calls.verify < budget.verify
  /\ VerifyReturns(t, p, h, verify(p, h, mem[t]))

\* states[i].proof() is called (on any thread: it touches nothing of the thread)
ProofCall(i) ==
  /\ ret' = [NoCall EXCEPT !.op = "proof", !.self = i, !.kind = "Ok",
                           !.bytes = proof(states[i])]
  /\ UNCHANGED <<states, mem, rejects, hashed, initLog, calls, budget>>

\* states[i].difficulty() is called (on any thread)
DifficultyCall(i) ==
  /\ ret' = [NoCall EXCEPT !.op = "difficulty", !.self = i, !.kind = "Ok",
                           !.dif = difficulty(states[i])]
  /\ UNCHANGED <<states, mem, rejects, hashed, initLog, calls, budget>>

\* the hashes handed to standalone verify: the run's, and one the primitive refuses
VerifyHashes == {TestHash, Rep(5, MIN_SALT_LEN - 1)}

Next ==
  \/ \E t \in Threads, a \in InitArgs : InitCall(t, a)
  \/ \E t \in Threads, i \in DOMAIN states : NextCall(t, i)
  \/ \E t \in Threads, p \in Probes, h \in VerifyHashes : VerifyCall(t, p, h)
  \/ \E i \in DOMAIN states : ProofCall(i)
  \/ \E i \in DOMAIN states : DifficultyCall(i)

Spec == Init /\ [][Next]_vars

---------------------------------------------------------------------------
(* A program that calls init again, with other calls in between *)

InitRepeat ==
  \E r \in 0..RejectMod : Start([init |-> 2, next |-> 1, verify |-> 1], r)

NextRepeat ==
  \/ \E t \in Threads, a \in InitArgs : InitCall(t, a)
  \/ \E t \in Threads, i \in DOMAIN states : NextCall(t, i)
  \/ \E t \in Threads, p \in Probes, h \in VerifyHashes : VerifyCall(t, p, h)

SpecRepeat == InitRepeat /\ [][NextRepeat]_vars

---------------------------------------------------------------------------
(* A program that starts more workers than the jitter tables have entries *)

\* the smallest count for which .cycle() starts the jitter tables again
WrapCount == Len(SM_JITTER) + 1

PartitionArgs ==
  [count : (UpTo(MaxCount) \ {Usize(0, 0)}) \cup {Usize(0, WrapCount)},
   seed : ValidSeeds, hash : {TestHash}]

InitPartition ==
  \E r \in 0..RejectMod : Start([init |-> 1, next |-> 1, verify |-> 0], r)

NextPartition ==
  \/ \E t \in Threads, a \in PartitionArgs : InitCall(t, a)
  \/ \E t \in Threads, i \in DOMAIN states : NextCall(t, i)
  \/ \E i \in DOMAIN states : ProofCall(i)

SpecPartition == InitPartition /\ [][NextPartition]_vars

---------------------------------------------------------------------------
(* A program that starts thousands of workers, as examples/timing.rs does on a
   machine of that many CPUs: init on the main thread, then each worker's loop
   of next calls.  Followed for two of the workers. *)

\* the number of workers started
CollideCount == 11590

\* the workers followed
Watched == {4, 5900}

\* for _ in 0..10 { iter.next().unwrap() }
BatchLen == 10

U128(v) == [i \in 1..U128Limbs |-> IF i = U128Limbs THEN v ELSE 0]

CollideArgs == [count : {Usize(0, CollideCount)}, seed : {<<1, 2, 250>>}, hash : {TestHash}]

\* how many next calls worker i makes in a row: a batch, or as many as take its
\* counter to where another worker's counter is
RunLengths(i) ==
  {U128(BatchLen)} \cup {Minus(states[j].iter, states[i].iter) : j \in (Watched \cap DOMAIN states) \ {i}}

InitCollide == Start([init |-> 1, next |-> 2, verify |-> 0], NoReject)

NextCollide ==
  \/ \E a \in CollideArgs : InitSpawn(1, a, Watched)
  \/ \E t \in Threads, i \in Watched \cap DOMAIN states : NextCall(t, i)
  \/ \E t \in Threads, i \in Watched \cap DOMAIN states : \E k \in RunLengths(i) : NextRun(t, i, k)

SpecCollide == InitCollide /\ [][NextCollide]_vars

---------------------------------------------------------------------------
(* A program whose hash outputs are given: outputs at the ends of the range   *)
(* and where `as f64` and the subtraction round                               *)

Pow2(k) ==
  [i \in 1..U128Limbs |-> IF i = U128Limbs - (k \div LimbBits) THEN 2 ^ (k % LimbBits) ELSE 0]

\* the first u128 that `as f64` rounds to 2^128: 2^128 - 2^74
FirstToRoundUp == WrappingAdd(Minus(MAX(U128Limbs), Pow2(74)), One(U128Limbs))

ScoreValues ==
  { Zero(U128Limbs), One(U128Limbs), Pow2(53), WrappingAdd(Pow2(53), One(U128Limbs)),
    WrappingAdd(Pow2(53), Pow2(1)), WrappingAdd(Pow2(64), Pow2(11)),
    WrappingAdd(WrappingAdd(Pow2(64), Pow2(11)), One(U128Limbs)), Pow2(127),
    Minus(MAX(U128Limbs), Pow2(75)), Minus(MAX(U128Limbs), Pow2(74)),
    FirstToRoundUp, MAX(U128Limbs) }

GivenOuts == {to_le_bytes(w) : w \in ScoreValues}

\* the outputs given to init and next
StoredOuts ==
  {to_le_bytes(w) : w \in {One(U128Limbs), Minus(MAX(U128Limbs), Pow2(74)),
                           FirstToRoundUp, MAX(U128Limbs)}}

\* thread t calls WorkProof::init(1, s, TestHash) and the primitive writes o
InitGiven(t, s, o) ==
  /\ calls.init < budget.init
  /\ InitReturns(t, [count |-> Usize(0, 1), seed |-> s, hash |-> TestHash, out |-> o],
                 initGiven(s, TestHash, mem[t], o), {1})

\* thread t calls states[i].next() and the primitive writes o
NextGiven(t, i, o) ==
  /\ calls.next < budget.next
  /\ NextReturns(t, i, nextGiven(states[i], mem[t], o), One(U128Limbs), [out |-> o])

ScoreReturns(t, o, v) ==
  /\ mem' = [mem EXCEPT ![t] = v.mem]
  /\ ret' = [NoCall EXCEPT !.op = "score", !.thread = t, !.args = [out |-> o],
                           !.kind = IF v.ok THEN "Ok" ELSE "Err",
                           !.dif = v.val, !.err = v.err,
                           !.vec = IF ret.op = "score"
                                   THEN <<[out |-> ret.args.out, dif |-> ret.dif]>>
                                   ELSE <<>>]
  /\ UNCHANGED <<states, rejects, hashed, initLog, calls, budget>>

\* thread t calls WorkProof::verify and the primitive writes o; the call before
\* it is kept with its result if it was one of these
VerifyGiven(t, o) == ScoreReturns(t, o, verifyGiven(o, mem[t]))

InitScore == Start([init |-> 1, next |-> 1, verify |-> 0], NoReject)

NextScore ==
  \/ \E t \in Threads, o \in StoredOuts : InitGiven(t, <<171>>, o)
  \/ \E t \in Threads, i \in DOMAIN states, o \in StoredOuts : NextGiven(t, i, o)
  \/ \E t \in Threads, o \in GivenOuts : VerifyGiven(t, o)

SpecScore == InitScore /\ [][NextScore]_vars

---------------------------------------------------------------------------
(* A program whose first state starts at the counter u128::MAX *)

\* with count 1, iter after the round is c0 + u128::MAX + BIG_JITTER[0]: u128::MAX
\* for c0 = 0 - BIG_JITTER[0]
WrapSeed == to_le_bytes(Minus(Zero(U128Limbs), BIG_JITTER[1])) \o <<7, 7, 7, 7>>

WrapArgs == [count : UpTo(MaxCount) \ {Usize(0, 0)}, seed : {WrapSeed, <<1, 2, 250>>}, hash : {TestHash}]

InitWrap ==
  \E r \in 0..RejectMod : Start([init |-> 1, next |-> MaxNext + 1, verify |-> 0], r)

NextWrap ==
  \/ \E t \in Threads, a \in WrapArgs : InitCall(t, a)
  \/ \E t \in Threads, i \in DOMAIN states : NextCall(t, i)
  \/ \E i \in DOMAIN states : ProofCall(i)
  \/ \E i \in DOMAIN states : DifficultyCall(i)

SpecWrap == InitWrap /\ [][NextWrap]_vars

---------------------------------------------------------------------------
(* A program that asks init for 2^32 states and more *)

\* 2^32, 2^33, and a count whose states take more than isize::MAX bytes
WideCounts == {Usize(1, 0), Usize(2, 0), Usize(MaxCapacityHi + 1, 0)}

WideArgs == [count : UpTo(MaxCount) \cup WideCounts, seed : ValidSeeds, hash : {TestHash}]

\* thread t calls WorkProof::init(a.count, a.seed, a.hash); the allocator grants
\* the memory for fewer than 2^32 states, and may or may not grant it for more
InitWide(t, a, granted) ==
  /\ calls.init < budget.init
  /\ granted \/ a.count.hi > 0
  /\ InitReturns(t, a, init(a.count, a.seed, a.hash, mem[t], granted), 1..a.count.lo)

InitWideStart ==
  \E r \in 0..RejectMod : Start([init |-> 2, next |-> 1, verify |-> 0], r)

NextWide ==
  \/ \E t \in Threads, a \in WideArgs, granted \in BOOLEAN : InitWide(t, a, granted)
  \/ \E t \in Threads, i \in DOMAIN states : NextCall(t, i)

SpecWide == InitWideStart /\ [][NextWide]_vars

---------------------------------------------------------------------------
(* Properties *)

\* a < b, for two integers of the same number of limbs
Less(a, b) == \E i \in 1..Len(a) : a[i] < b[i] /\ \A j \in 1..(i - 1) : a[j] = b[j]

\* Candidate c is one of those of the run
Covers(run, c) ==
  Tag(run.from) = Tag(c) /\ Less(Minus(Counter(c), Counter(run.from)), run.len)

Followed == Watched \cap DOMAIN states

\* C1: no two of the states returned by one init call hold the same 20-byte
\* Candidate at the same time, whatever next calls the workers have made
C1_NoSharedCandidate ==
  \A i \in Followed, j \in Followed : i # j => proof(states[i]) # proof(states[j])

\* C2: the Candidates one worker has hashed (its initial Candidate and those of
\* its next calls) are none of those another worker has hashed
C2_HistoriesDisjoint ==
  \A i \in Followed, j \in Followed :
    i # j => \A r1 \in hashed[i], r2 \in hashed[j] :
               ~Covers(r1, r2.from) /\ ~Covers(r2, r1.from)

\* C3: the Candidates of the states a successful init returns are pairwise
\* distinct
C3_InitialDistinct ==
  (ret.op = "init" /\ ret.kind = "Ok") =>
    \A i \in 1..Len(ret.vec), j \in 1..Len(ret.vec) :
      i # j => proof(ret.vec[i]) # proof(ret.vec[j])

C3_Witness ==
  /\ ret.op = "init" /\ ret.kind = "Ok"
  /\ Len(ret.vec) = WrapCount
  /\ Len(ret.args.seed) < PwdLen

BadArgs(a) == Len(a.seed) = 0 \/ Len(a.seed) > PwdLen \/ Len(a.hash) # SaltLen

\* C4: init returns one of its argument errors exactly when the seed is empty or
\* longer than 20 bytes or the hash is not 32 bytes long, and it then has handed
\* nothing to the hash primitive and returns no state
C4_Validation ==
  ret.op = "init" =>
    /\ (ret.kind = "Err" /\ ret.err \in InvalidInput) <=> BadArgs(ret.args)
    /\ BadArgs(ret.args) => ret.trace = <<>> /\ ret.vec = <<>>

C4_Witness ==
  /\ ret.op = "init" /\ ret.kind = "Err" /\ ret.err \in InvalidInput
  /\ Len(ret.args.seed) \in 1..PwdLen
  /\ Len(ret.args.hash) = SaltLen - 1

\* the step is a call of states[i].next() that returns an error
FailedNext(i) == ret'.op = "next" /\ ret'.self = i /\ ret'.kind = "Err"

\* C5: a next call that returns an error leaves the stored difficulty as it was
C5_FailedNextKeepsScore ==
  [][\A i \in DOMAIN states :
       FailedNext(i) => difficulty(states'[i]) = difficulty(states[i])]_vars

C5_Witness ==
  /\ ret.op = "next" /\ ret.kind = "Err"
  /\ difficulty(states[ret.self]) # NoScore

\* C6: a next call that returns an error leaves the Candidate bytes and the
\* counter as they were
C6_FailedNextKeepsCandidate ==
  [][\A i \in DOMAIN states :
       FailedNext(i) => /\ proof(states'[i]) = proof(states[i])
                        /\ states'[i].iter = states[i].iter]_vars

\* the stored difficulty of states[i] is what verify returns for its Candidate
\* and hash, on any thread
ScoreMatches(i) ==
  \A t \in Threads :
    /\ verify(proof(states[i]), states[i].salt, mem[t]).ok
    /\ verify(proof(states[i]), states[i].salt, mem[t]).val = difficulty(states[i])

\* C7: after init and after every next call that returns Ok, the stored
\* difficulty is the one verify returns for the stored Candidate, and it is the
\* value next returned
C7_ScoreOfCandidate ==
  /\ (ret.op = "init" /\ ret.kind = "Ok") => \A i \in DOMAIN states : ScoreMatches(i)
  /\ (ret.op = "next" /\ ret.kind = "Ok") =>
       ret.dif = difficulty(states[ret.self]) /\ ScoreMatches(ret.self)

C7_Witness ==
  /\ ret.op = "next" /\ ret.kind = "Ok"
  /\ calls.next = MaxNext
  /\ \E t \in Threads : mem[t] = Unallocated

\* C8: two init calls with the same count, seed and hash return the same
C8_InitDeterministic ==
  \A x \in initLog, y \in initLog : x.args = y.args => x = y

C8_Witness ==
  /\ calls.init = 2 /\ Cardinality(initLog) = 1
  /\ ret.op = "init" /\ ret.kind = "Ok" /\ Len(ret.vec) = MaxCount
  /\ \A t \in Threads : mem[t] # Unallocated

\* C9: init returns for a seed what it returns for the seed repeated to 20 bytes
C9_SeedRepetition ==
  \A x \in initLog, y \in initLog :
    ( /\ Len(x.args.seed) \in 1..PwdLen
      /\ y.args = [x.args EXCEPT !.seed = Filled(x.args.seed)] )
    => x.kind = y.kind /\ x.vec = y.vec /\ x.err = y.err

C9_Witness ==
  \E x \in initLog, y \in initLog :
    /\ x.args.seed = <<1, 2, 250>>
    /\ y.args = [x.args EXCEPT !.seed = Filled(x.args.seed)]
    /\ x.kind = "Ok" /\ Len(x.vec) = MaxCount

\* what the caller of verify sees of its result
Seen(v) == [ok |-> v.ok, val |-> v.val, err |-> v.err]

\* C10: verify returns for a proof and a hash the same on every thread, whatever
\* the thread's MEM holds and whether or not it is allocated yet
C10_VerifyPure ==
  /\ \A p \in Probes, h \in VerifyHashes, t \in Threads :
       Seen(verify(p, h, mem[t])) = Seen(verify(p, h, Unallocated))
  /\ ret.op = "verify" =>
       [ok |-> ret.kind = "Ok", val |-> ret.dif, err |-> ret.err]
         = Seen(verify(ret.args.proof, ret.args.hash, Unallocated))

C10_Witness ==
  /\ ret.op = "verify" /\ ret.kind = "Ok"
  /\ calls.next > 0
  /\ \E t \in Threads : mem[t] = Unallocated

\* C11: a thread allocates at most one scratch buffer, when it first hashes, and
\* uses that buffer in all its later calls; the buffer of a thread is touched
\* only by calls that thread makes
C11_ScratchPolicy ==
  [][\A t \in Threads :
       /\ mem'[t].allocs <= 1
       /\ mem[t] # Unallocated => mem'[t].allocs = mem[t].allocs
       /\ mem'[t] # mem[t] => ret'.thread = t /\ ret'.trace # <<>>
       /\ (ret'.thread = t /\ ret'.trace # <<>>) => mem'[t].allocs = 1]_vars

C11_Witness ==
  /\ \A t \in Threads : mem[t].allocs = 1
  /\ calls.next = MaxNext /\ calls.verify = MaxVerify
  /\ ret.op = "verify" /\ ret.kind = "Err"

\* the hash output o is so close to u128::MAX that pct is 1.0
RoundsToOne(o) == RoundF64(Widen(from_le_bytes(o))) = MaxAsF64

\* C12: of two hash outputs v1 < v2 (read as little-endian u128), the score of
\* v1 is at most the score of v2
C12_ScoreMonotonic ==
  (ret.op = "score" /\ ret.vec # <<>>) =>
    ( Less(from_le_bytes(ret.vec[1].out), from_le_bytes(ret.args.out))
      => ScoreLeq(ret.vec[1].dif, ret.dif) )

C12_Witness ==
  /\ ret.op = "score" /\ ret.vec # <<>>
  /\ Less(from_le_bytes(ret.vec[1].out), from_le_bytes(ret.args.out))
  /\ ret.vec[1].dif # ret.dif
  /\ from_le_bytes(ret.args.out) = Pow2(127)

\* C13: for a hash output whose pct rounds to 1.0, verify returns Ok with the
\* difficulty +infinity, and next and init return Ok and store that difficulty
C13_InfinityIsAScore ==
  /\ (ret.op = "score" /\ RoundsToOne(ret.args.out)) =>
       ret.kind = "Ok" /\ ret.dif = Infinity
  /\ (ret.op = "next" /\ RoundsToOne(ret.args.out)) =>
       ret.kind = "Ok" /\ ret.dif = Infinity /\ difficulty(states[ret.self]) = Infinity
  /\ (ret.op = "init" /\ RoundsToOne(ret.args.out)) =>
       ret.kind = "Ok" /\ Len(ret.vec) = 1 /\ difficulty(ret.vec[1]) = Infinity

C13_Witness ==
  /\ ret.op = "next" /\ ret.kind = "Ok"
  /\ ret.args.out = to_le_bytes(FirstToRoundUp)
  /\ difficulty(states[ret.self]) = Infinity
  /\ \E x \in initLog : x.kind = "Ok" /\ difficulty(x.vec[1]) = Infinity

\* the step is a call of states[i].next() that returns Ok
GoodNext(i) == ret'.op = "next" /\ ret'.self = i /\ ret'.kind = "Ok"

\* the 16 little-endian bytes of the number that follows that of b, modulo 2^128
SuccLE(b) ==
  [i \in 1..Len(b) |-> IF \A j \in 1..(i - 1) : b[j] = 255 THEN (b[i] + 1) % 256 ELSE b[i]]

\* C14: a next call that returns Ok leaves in the first 16 bytes of the Candidate,
\* and in the counter, the number that follows the one they held, modulo 2^128
\* (0 after 2^128 - 1); no next call panics
C14_NextAddsOne ==
  [][\A i \in DOMAIN states :
       /\ GoodNext(i) =>
            /\ SubSeq(proof(states'[i]), 1, CounterLen)
                 = SuccLE(SubSeq(proof(states[i]), 1, CounterLen))
            /\ to_le_bytes(states'[i].iter) = SuccLE(to_le_bytes(states[i].iter))
       /\ (ret'.op = "next" /\ ret'.self = i) => ret'.kind \in {"Ok", "Err"}]_vars

C14_Witness ==
  /\ ret.op = "next" /\ ret.kind = "Ok" /\ calls.next = 1
  /\ states[ret.self].iter = Zero(U128Limbs)
  /\ SubSeq(proof(states[ret.self]), 1, CounterLen) = Rep(0, CounterLen)

\* C15: a next call leaves the last 4 bytes of its Candidate, its hash and all
\* other states as they were; proof() and difficulty() change nothing; so every
\* state has the node id and the hash that init gave it
C15_NextFrame ==
  [][/\ \A i \in DOMAIN states :
          (ret'.op = "next" /\ ret'.self = i) =>
            /\ Tag(proof(states'[i])) = Tag(proof(states[i]))
            /\ states'[i].salt = states[i].salt
            /\ \A j \in DOMAIN states \ {i} : states'[j] = states[j]
     /\ ret'.op \in {"proof", "difficulty"} => states' = states /\ mem' = mem
     /\ \A x \in initLog' :
          x.kind = "Ok" =>
            \A i \in DOMAIN states' : /\ Tag(proof(states'[i])) = Tag(proof(x.vec[i]))
                                      /\ states'[i].salt = x.args.hash]_vars

C15_Witness ==
  /\ ret.op = "difficulty" /\ calls.next = MaxNext
  /\ \E x \in initLog :
       /\ x.kind = "Ok" /\ Len(x.vec) = MaxCount
       /\ \A i \in DOMAIN states : proof(states[i]) # proof(x.vec[i])

\* C17: for every count >= 1, also one whose low 32 bits are zero, with a valid
\* seed and hash, an init that gets the memory for its states returns Ok or the
\* error of the hash primitive; it never panics
C17_InitNeverAborts ==
  (/\ ret.op = "init" /\ ~BadArgs(ret.args) /\ ret.args.count # Usize(0, 0)
   /\ ret.kind # "Abort")
    => \/ ret.kind = "Ok"
       \/ ret.kind = "Err" /\ ret.err \notin InvalidInput

\* (a * k) mod 2^(16 * Len(a)), for 0 <= k < 2^15
RECURSIVE MulFrom(_, _, _, _)
MulFrom(a, k, i, carry) ==
  IF i = 0 THEN <<>>
  ELSE MulFrom(a, k, i - 1, (a[i] * k + carry) \div Base) \o <<(a[i] * k + carry) % Base>>

Times(a, k) == MulFrom(a, k, Len(a), 0)

\* table[0] + .. + table[n - 1], for n up to the length of the table
RECURSIVE PrefixSum(_, _)
PrefixSum(table, n) ==
  IF n = 0 THEN Zero(Len(table[1])) ELSE WrappingAdd(PrefixSum(table, n - 1), table[n])

\* the sum of table[j mod 13] for j = 0 .. k - 1
JitterSum(table, k) ==
  WrappingAdd(Times(PrefixSum(table, Len(table)), k \div Len(table)),
              PrefixSum(table, k % Len(table)))

\* start + k * floor(max / count) + the jitter of k rounds
Position(start, count, table, k) ==
  WrappingAdd(WrappingAdd(start, Times(Div(MAX(Len(start)), count), k)), JitterSum(table, k))

C18_InitReturnsCount ==
  [][/\ (ret'.op = "init" /\ ret'.kind = "Ok") =>
          /\ Len(ret'.vec) = ret'.args.count.lo
          /\ Len(ret'.trace) = Len(ret'.vec)
          /\ \A k \in DOMAIN ret'.vec :
               /\ ret'.vec[k].salt = ret'.args.hash
               /\ proof(ret'.vec[k]) = ret'.trace[k]
          /\ states' = ret'.vec
     /\ (ret'.op = "init" /\ ~BadArgs(ret'.args) /\ ret'.args.count = Usize(0, 0)) =>
          /\ ret'.kind = "Ok" /\ ret'.vec = <<>> /\ ret'.trace = <<>>
          /\ mem' = mem]_vars

C18_Witness ==
  /\ ret.op = "init" /\ ret.kind = "Ok" /\ Len(ret.vec) = MaxCount
  /\ \E x \in initLog : x.kind = "Ok" /\ x.args.count = Usize(0, 0) /\ x.vec = <<>>

\* byte j (j = 0 for the lowest) of the number w
ByteOf(w, j) ==
  IF j % 2 = 0 THEN w[Len(w) - (j \div 2)] % 256 ELSE w[Len(w) - (j \div 2)] \div 256

\* C19: after init and any number of next calls, the first 16 bytes of every
\* state's Candidate are the little-endian bytes of its counter iter
C19_CounterMirror ==
  \A i \in DOMAIN states :
    \A j \in 0..(CounterLen - 1) : proof(states[i])[j + 1] = ByteOf(states[i].iter, j)

C19_Witness ==
  /\ ret.op = "next" /\ ret.kind = "Ok" /\ calls.next > 1
  /\ states[ret.self].iter = One(U128Limbs)
  /\ proof(states[ret.self])[1] = 1

====
